---- MODULE Spec2Model ----
(***************************************************************************)
(* Model of src/src/array.rs: PyArray, the untyped handle over a NumPy     *)
(* ndarray.  One handle is modelled.  The foreign object is the record     *)
(* `obj` (the fields of PyArrayObject the code reads: nd, dimensions,      *)
(* strides, data, descr->type_num) and the buffer it points into is `mem`, *)
(* a sequence of elements; `obj.data` is an element offset into `mem`.     *)
(* Views and slices returned by the accessors are kept in `views` until    *)
(* they are released.                                                      *)
(***************************************************************************)
EXTENDS Integers, Sequences, FiniteSets, TLC

VARIABLES obj, mem, views, call, ret, trace, built, written, errAt

vars == <<obj, mem, views, call, ret, trace, built, written, errAt>>

(***************************************************************************)
(* Bounds of the model.                                                    *)
(***************************************************************************)
MaxLen2 == 2      \* from_vec2: longest outer and inner Vec
MaxD1 == 2        \* from_vec3: longest outer Vec
MaxD2 == 2        \* from_vec3: longest second-level Vec
MaxD3 == 1        \* from_vec3: longest third-level Vec
MaxNd == 3        \* new: most axes
MaxExtent == 2    \* new: largest extent of an axis
MaxViews == 2     \* most views live at once on the handle
MaxBuf == 4       \* new_: longest caller-supplied buffer

Elem == {0, 1}

SeqUpTo(S, n) == UNION {[1..m -> S] : m \in 0..n}

(***************************************************************************)
(* Element types (types::TypeNum) and the pieces of the foreign runtime    *)
(* and of sibling modules that array.rs calls.                             *)
(***************************************************************************)
Types == {"i32", "u32", "f64"}

\* A::typenum(): the NPY_TYPES tag of a static element type.
TypeNum_typenum(T) ==
    CASE T = "i32" -> 5
      [] T = "u32" -> 6
      [] T = "f64" -> 12

\* ::std::mem::size_of::<A>()
size_of(A) ==
    CASE A = "i32" -> 4
      [] A = "u32" -> 4
      [] A = "f64" -> 8

\* descr->elsize of the descriptor PyArray_New makes for a type tag.
elsize(tn) ==
    CASE tn = 5 -> 4
      [] tn = 6 -> 4
      [] tn = 12 -> 8

\* A cell of a buffer the foreign runtime allocated and nobody has written.
Uninit == -1

RECURSIVE Prod(_)
Prod(s) == IF Len(s) = 0 THEN 1 ELSE Head(s) * Prod(Tail(s))

\* Row-major byte strides of a fresh array.
element_strides(dims, k) ==
    [i \in 1..Len(dims) |-> k * Prod(SubSeq(dims, i + 1, Len(dims)))]

\* Pointer arguments: a null pointer, or a pointer `off` elements into `buf`.
NullPtr == [null |-> TRUE]
Ptr(buf, off) == [null |-> FALSE, buf |-> buf, off |-> off]
\* A strides argument: null, or one byte stride per axis.
StridesArg(s) == [null |-> FALSE, val |-> s]

NoArray == [live |-> FALSE]

\* np.PyArray_New(subtype, nd, dims, type_num, strides, data, 0, 0, NULL):
\* the new PyArrayObject and the buffer its data pointer points into.
PyArray_New(nd, dims, type_num, strides, data) ==
    [obj |-> [live |-> TRUE,
              nd |-> nd,
              dimensions |-> dims,
              strides |-> IF strides.null
                          THEN element_strides(dims, elsize(type_num))
                          ELSE strides.val,
              data |-> IF data.null THEN 0 ELSE data.off,
              descr |-> [type_num |-> type_num]],
     mem |-> IF data.null
             THEN [i \in 1..Prod(dims) |-> Uninit]
             ELSE data.buf]

\* convert::into_raw(v): the Vec's heap buffer, handed over as a raw pointer.
into_raw(x) == Ptr(x, 0)

\* ArrayCastError::to_rust(test, truth)
to_rust(test, truth) == [err |-> "ToRust", expected |-> test, found |-> truth]

\* ArrayCastError::FromVec
FromVec == [err |-> "FromVec"]

Ok(x) == [tag |-> "Ok", val |-> x]
Err(e) == [tag |-> "Err", val |-> e]
Val(x) == [tag |-> "Val", val |-> x]
NoRet == [tag |-> "None"]

(***************************************************************************)
(* Introspection: PyArray::ndim, shape, strides, len, typenum, data.       *)
(***************************************************************************)
ndim(o) == o.nd

shape(o) == SubSeq(o.dimensions, 1, ndim(o))

\* Variant of strides: reads the dimensions field where strides is meant.
strides_dims(o) == SubSeq(o.dimensions, 1, ndim(o))

strides(o) == SubSeq(o.strides, 1, ndim(o))

RECURSIVE fold_mul(_, _)
fold_mul(acc, s) == IF Len(s) = 0 THEN acc ELSE fold_mul(acc * Head(s), Tail(s))

len(o) == fold_mul(1, shape(o))

data(o) == o.data

typenum(o) == o.descr.type_num

(***************************************************************************)
(* Builders: new_, new, from_vec2, from_vec3.  Each yields the value it    *)
(* returns, the foreign object and buffer it leaves behind, and the        *)
(* allocation steps it performed, in order.                                *)
(***************************************************************************)
new_(T, dims, strides_, data_) ==
    PyArray_New(Len(dims), dims, TypeNum_typenum(T), strides_, data_)

new(T, dims) ==
    LET a == new_(T, dims, NullPtr, NullPtr)
    IN  [ret |-> Val(a.obj), obj |-> a.obj, mem |-> a.mem, trace |-> <<"PyArray_New">>]

\* v.last().map_or(0, |v| v.len())
last_len(v) == IF Len(v) = 0 THEN 0 ELSE Len(v[Len(v)])

\* Variant of flatten: the rows are laid out last to first.
RECURSIVE flatten_rev(_)
flatten_rev(v) == IF Len(v) = 0 THEN <<>> ELSE flatten_rev(Tail(v)) \o Head(v)

\* v.iter().cloned().flatten().collect()
RECURSIVE flatten(_)
flatten(v) == IF Len(v) = 0 THEN <<>> ELSE Head(v) \o flatten(Tail(v))

\* v.iter().flat_map(|v| v.iter().cloned().flatten()).collect()
RECURSIVE flat_map(_)
flat_map(v) == IF Len(v) = 0 THEN <<>> ELSE flatten(Head(v)) \o flat_map(Tail(v))

Failed(e) == [ret |-> Err(e), obj |-> NoArray, mem |-> <<>>, trace |-> <<>>]

\* Variant of from_vec2: `all` where `any` is meant in the length check.
from_vec2_all(T, v) ==
    LET ll == last_len(v)
    IN  IF \A i \in 1..Len(v) : Len(v[i]) # ll
        THEN Failed(FromVec)
        ELSE LET a == new_(T, <<Len(v), ll>>, NullPtr, into_raw(flatten(v)))
             IN  [ret |-> Ok(a.obj), obj |-> a.obj, mem |-> a.mem,
                  trace |-> <<"collect", "into_raw", "PyArray_New">>]

from_vec2(T, v) ==
    LET ll == last_len(v)
    IN  IF \E i \in 1..Len(v) : Len(v[i]) # ll
        THEN Failed(FromVec)
        ELSE LET dims == <<Len(v), ll>>
                 flattend == flatten(v)
                 a == new_(T, dims, NullPtr, into_raw(flattend))
             IN  [ret |-> Ok(a.obj), obj |-> a.obj, mem |-> a.mem,
                  trace |-> <<"collect", "into_raw", "PyArray_New">>]

\* Variant of from_vec3: the third-level lengths are not checked.
from_vec3_nodim3(T, v) ==
    LET dim2 == last_len(v)
    IN  IF \E i \in 1..Len(v) : Len(v[i]) # dim2
        THEN Failed(FromVec)
        ELSE LET dim3 == IF Len(v) = 0 THEN 0 ELSE last_len(v[Len(v)])
                 a == new_(T, <<Len(v), dim2, dim3>>, NullPtr, into_raw(flat_map(v)))
             IN  [ret |-> Ok(a.obj), obj |-> a.obj, mem |-> a.mem,
                  trace |-> <<"collect", "into_raw", "PyArray_New">>]

\* Variant of from_vec3: a third-level mismatch gets an error of its own.
from_vec3_depth(T, v) ==
    LET dim2 == last_len(v)
    IN  IF \E i \in 1..Len(v) : Len(v[i]) # dim2
        THEN Failed(FromVec)
        ELSE LET dim3 == IF Len(v) = 0 THEN 0 ELSE last_len(v[Len(v)])
             IN  IF \E i \in 1..Len(v) : \E j \in 1..Len(v[i]) : Len(v[i][j]) # dim3
                 THEN Failed([err |-> "FromVecDepth3"])
                 ELSE LET a == new_(T, <<Len(v), dim2, dim3>>, NullPtr,
                                    into_raw(flat_map(v)))
                      IN  [ret |-> Ok(a.obj), obj |-> a.obj, mem |-> a.mem,
                           trace |-> <<"collect", "into_raw", "PyArray_New">>]

from_vec3(T, v) ==
    LET dim2 == last_len(v)
    IN  IF \E i \in 1..Len(v) : Len(v[i]) # dim2
        THEN Failed(FromVec)
        ELSE LET dim3 == IF Len(v) = 0 THEN 0 ELSE last_len(v[Len(v)])
             IN  IF \E i \in 1..Len(v) : \E j \in 1..Len(v[i]) : Len(v[i][j]) # dim3
                 THEN Failed(FromVec)
                 ELSE LET dims == <<Len(v), dim2, dim3>>
                          flattend == flat_map(v)
                          a == new_(T, dims, NullPtr, into_raw(flattend))
                      IN  [ret |-> Ok(a.obj), obj |-> a.obj, mem |-> a.mem,
                           trace |-> <<"collect", "into_raw", "PyArray_New">>]

(***************************************************************************)
(* Accessors: type_check, ndarray_shape, as_array, as_array_mut, as_slice, *)
(* as_slice_mut.                                                           *)
(***************************************************************************)
\* x as usize / size_of::<A>(), for an isize x and a usize that is 64 (or 32)
\* bits wide.  `x as usize` is x for x >= 0 and 2^w + x for x < 0, and the
\* element sizes divide 2^w, so the quotient is  wrap * (2^w / k) + (x \div k)
\* with \div rounding down; it is kept as the pair (wrap, q) because 2^w is
\* beyond the integers TLC computes with.
as_usize_div(x, k) == [wrap |-> x < 0, q |-> x \div k]

ndarray_shape(A, o) ==
    [dim |-> shape(o),
     strides |-> [i \in 1..ndim(o) |-> as_usize_div(strides(o)[i], size_of(A))]]

\* Variant of type_check: compares element sizes instead of type tags.
type_check_size(A, o) ==
    IF size_of(A) = elsize(typenum(o))
    THEN Ok(<<>>)
    ELSE Err(to_rust(TypeNum_typenum(A), typenum(o)))

type_check(A, o) ==
    LET test == TypeNum_typenum(A)
        truth == typenum(o)
    IN  IF TypeNum_typenum(A) = typenum(o)
        THEN Ok(<<>>)
        ELSE Err(to_rust(test, truth))

\* ArrayView::from_shape_ptr / ArrayViewMut::from_shape_ptr: a view is the
\* pointer, the extents and the element strides; it holds no data.
from_shape_ptr(sh, ptr, A, mut) ==
    [kind |-> "array", mut |-> mut, A |-> A, dim |-> sh.dim,
     strides |-> sh.strides, ptr |-> ptr]

\* slice::from_raw_parts(ptr, n) / from_raw_parts_mut: pointer and length,
\* i.e. one axis of n elements one element apart.
from_raw_parts(ptr, n, A, mut) ==
    [kind |-> "slice", mut |-> mut, A |-> A, dim |-> <<n>>,
     strides |-> <<[wrap |-> FALSE, q |-> 1]>>, ptr |-> ptr]

Rejected(tc) == [ret |-> tc, trace |-> <<"typenum">>]

\* Variant of as_array: the view is built from the shape alone, with the
\* default (row-major) strides instead of the array's own.
as_array_contig(A, o) ==
    LET tc == type_check(A, o)
    IN  IF tc.tag = "Err"
        THEN Rejected(tc)
        ELSE [ret |-> Ok(from_shape_ptr(
                         [dim |-> shape(o),
                          strides |-> [i \in 1..ndim(o) |->
                              [wrap |-> FALSE,
                               q |-> Prod(SubSeq(shape(o), i + 1, ndim(o)))]]],
                         data(o), A, FALSE)),
              trace |-> <<"typenum", "shape", "data">>]

as_array(A, o) ==
    LET tc == type_check(A, o)
    IN  IF tc.tag = "Err"
        THEN Rejected(tc)
        ELSE [ret |-> Ok(from_shape_ptr(ndarray_shape(A, o), data(o), A, FALSE)),
              trace |-> <<"typenum", "shape", "strides", "data">>]

as_array_mut(A, o) ==
    LET tc == type_check(A, o)
    IN  IF tc.tag = "Err"
        THEN Rejected(tc)
        ELSE [ret |-> Ok(from_shape_ptr(ndarray_shape(A, o), data(o), A, TRUE)),
              trace |-> <<"typenum", "shape", "strides", "data">>]

\* Variant of as_slice: the slice is as long as the number of axes.
as_slice_ndim(A, o) ==
    LET tc == type_check(A, o)
    IN  IF tc.tag = "Err"
        THEN Rejected(tc)
        ELSE [ret |-> Ok(from_raw_parts(data(o), ndim(o), A, FALSE)),
              trace |-> <<"typenum", "data", "shape">>]

as_slice(A, o) ==
    LET tc == type_check(A, o)
    IN  IF tc.tag = "Err"
        THEN Rejected(tc)
        ELSE [ret |-> Ok(from_raw_parts(data(o), len(o), A, FALSE)),
              trace |-> <<"typenum", "data", "shape">>]

as_slice_mut(A, o) ==
    LET tc == type_check(A, o)
    IN  IF tc.tag = "Err"
        THEN Rejected(tc)
        ELSE [ret |-> Ok(from_raw_parts(data(o), len(o), A, TRUE)),
              trace |-> <<"typenum", "data", "shape">>]

(***************************************************************************)
(* Element access through a view (ndarray indexing, slice indexing).       *)
(***************************************************************************)
RECURSIVE dot(_, _)
dot(idx, st) ==
    IF Len(idx) = 0 THEN 0 ELSE Head(idx) * Head(st).q + dot(Tail(idx), Tail(st))

\* The element a view addresses at a multi-index: ptr.offset(sum idx*stride),
\* in elements from the start of the buffer.  Pointer arithmetic is modulo
\* 2^w bytes, so the wrap part of a stride (2^w / k elements) drops out.
view_addr(vw, idx) == vw.ptr + dot(idx, vw.strides)

\* The multi-index of the r-th element in row-major (logical) order.
unrank(r, dim) ==
    [i \in 1..Len(dim) |-> (r \div Prod(SubSeq(dim, i + 1, Len(dim)))) % dim[i]]

Indices(dim) == {unrank(r, dim) : r \in 0..(Prod(dim) - 1)}

InAlloc(m, a) == a >= 0 /\ a < Len(m)

(***************************************************************************)
(* State machine.  `call` is the operation performed last with its         *)
(* arguments, `ret` what it returned and `trace` the foreign and unsafe    *)
(* steps it performed; `built` is the builder call that made the current   *)
(* array.  `written` (per buffer cell, the value last written to it        *)
(* through a mutable view, Uninit if none) and `errAt` (the error values   *)
(* seen so far per offending nesting depth) are history variables.         *)
(***************************************************************************)
NoWrites(m) == [i \in 1..Len(m) |-> Uninit]
NoCall == [op |-> "none"]

Init ==
    /\ obj = NoArray
    /\ mem = <<>>
    /\ views = <<>>
    /\ call = NoCall
    /\ ret = NoRet
    /\ trace = <<>>
    /\ built = NoCall
    /\ written = NoWrites(<<>>)
    /\ errAt = [d \in {2, 3} |-> {}]

\* The nesting depth at which sibling lengths differ (2 before 3).
Ragged2(v) == \E i, j \in 1..Len(v) : Len(v[i]) # Len(v[j])
Ragged3(v) ==
    \E i, j \in 1..Len(v) : \E a \in 1..Len(v[i]) : \E b \in 1..Len(v[j]) :
        Len(v[i][a]) # Len(v[j][b])
OffendingDepth(v) == IF Ragged2(v) THEN 2 ELSE 3

Idle == ~obj.live /\ ret.tag = "None"

\* A builder call: the handle slot is free and the caller holds no result
\* of an earlier call; the call fills the slot on success.
Build(r, c) ==
    /\ Idle
    /\ obj' = r.obj
    /\ mem' = r.mem
    /\ ret' = r.ret
    /\ trace' = r.trace
    /\ call' = c
    /\ built' = c
    /\ written' = NoWrites(r.mem)
    /\ UNCHANGED views

New(T, dims) ==
    /\ Build(new(T, dims), [op |-> "new", T |-> T, dims |-> dims])
    /\ UNCHANGED errAt

New_(T, dims, strides_, data_) ==
    /\ LET a == new_(T, dims, strides_, data_)
       IN  Build([ret |-> Val(a.obj), obj |-> a.obj, mem |-> a.mem,
                  trace |-> <<"PyArray_New">>],
                 [op |-> "new_", T |-> T, dims |-> dims, strides |-> strides_,
                  data |-> data_])
    /\ UNCHANGED errAt

FromVec2(T, v) ==
    /\ LET r == from_vec2(T, v)
       IN  /\ Build(r, [op |-> "from_vec2", T |-> T, v |-> v])
           /\ errAt' = IF r.ret.tag = "Err"
                       THEN [errAt EXCEPT ![2] = @ \cup {r.ret.val}]
                       ELSE errAt

FromVec3(T, v) ==
    /\ LET r == from_vec3(T, v)
       IN  /\ Build(r, [op |-> "from_vec3", T |-> T, v |-> v])
           /\ errAt' = IF r.ret.tag = "Err"
                       THEN [errAt EXCEPT ![OffendingDepth(v)] = @ \cup {r.ret.val}]
                       ELSE errAt

\* The caller is done with the error a builder returned.
Discard ==
    /\ ~obj.live
    /\ ret.tag = "Err"
    /\ call' = [op |-> "discard"]
    /\ ret' = NoRet
    /\ trace' = <<>>
    /\ built' = NoCall
    /\ UNCHANGED <<obj, mem, views, written, errAt>>

\* Dropping the handle; the borrow checker allows it once no view borrows it.
Drop ==
    /\ obj.live
    /\ views = <<>>
    /\ obj' = NoArray
    /\ mem' = <<>>
    /\ call' = [op |-> "drop"]
    /\ ret' = NoRet
    /\ trace' = <<>>
    /\ built' = NoCall
    /\ written' = NoWrites(<<>>)
    /\ UNCHANGED <<views, errAt>>

\* An introspection call.
Inspect(op, x) ==
    /\ obj.live
    /\ call' = [op |-> op]
    /\ ret' = Val(x)
    /\ trace' = <<>>
    /\ UNCHANGED <<obj, mem, views, built, written, errAt>>

Ndim == obj.live /\ Inspect("ndim", ndim(obj))
Shape == obj.live /\ Inspect("shape", shape(obj))
Strides == obj.live /\ Inspect("strides", strides(obj))
ArrLen == obj.live /\ Inspect("len", len(obj))

\* An accessor call.  All four take &self, so the handle being borrowed by
\* live views never prevents a call; a view that is returned stays live
\* until it is released.
Access(r, c) ==
    /\ obj.live
    /\ Len(views) < MaxViews
    /\ ret' = r.ret
    /\ trace' = r.trace
    /\ call' = c
    /\ views' = IF r.ret.tag = "Ok"
                THEN Append(views, r.ret.val)
                ELSE views
    /\ UNCHANGED <<obj, mem, built, written, errAt>>

AsArray(A) == obj.live /\ Access(as_array(A, obj), [op |-> "as_array", A |-> A])
AsArrayMut(A) == obj.live /\ Access(as_array_mut(A, obj), [op |-> "as_array_mut", A |-> A])
AsSlice(A) == obj.live /\ Access(as_slice(A, obj), [op |-> "as_slice", A |-> A])
AsSliceMut(A) == obj.live /\ Access(as_slice_mut(A, obj), [op |-> "as_slice_mut", A |-> A])

\* The end of a view's lifetime.
Release(i) ==
    /\ i \in 1..Len(views)
    /\ views' = [j \in 1..(Len(views) - 1) |-> IF j < i THEN views[j] ELSE views[j + 1]]
    /\ call' = [op |-> "release"]
    /\ ret' = NoRet
    /\ trace' = <<>>
    /\ UNCHANGED <<obj, mem, built, written, errAt>>

\* view[idx] = val through a mutable view or slice.
ViewWrite(i, idx, val) ==
    /\ i \in 1..Len(views)
    /\ views[i].mut
    /\ idx \in Indices(views[i].dim)
    /\ InAlloc(mem, view_addr(views[i], idx))
    /\ mem' = [mem EXCEPT ![view_addr(views[i], idx) + 1] = val]
    /\ written' = [written EXCEPT ![view_addr(views[i], idx) + 1] = val]
    /\ call' = [op |-> "write"]
    /\ ret' = NoRet
    /\ trace' = <<>>
    /\ UNCHANGED <<obj, views, built, errAt>>

\* What reading a cell can yield: its content, or anything if never written.
Load(m, a) == IF m[a + 1] = Uninit THEN Elem ELSE {m[a + 1]}

(***************************************************************************)
(* Inputs.                                                                 *)
(***************************************************************************)
\* from_vec2: every Vec<Vec<T>> within the bounds.
Vec2In == SeqUpTo(SeqUpTo(Elem, MaxLen2), MaxLen2)

\* from_vec3: every nesting of lengths within the bounds, rectangular or
\* not; each element carries its own position, so that any reordering of
\* the data shows.
Skel3 == SeqUpTo(SeqUpTo(0..MaxD3, MaxD2), MaxD1)
Fill3(s) ==
    [i \in 1..Len(s) |-> [j \in 1..Len(s[i]) |-> [k \in 1..s[i][j] |->
        100 * i + 10 * j + k]]]

\* new: every shape within the bounds, and the shape of the doc tests.
NewShapes == SeqUpTo(0..MaxExtent, MaxNd) \cup {<<4, 5, 6>>}

\* new_: shapes of non-empty arrays of up to two axes, byte strides, and
\* the caller's buffer
\* (cell i holds 10 + i), into which the data pointer may point anywhere.
RawDims ==
    {<<>>} \cup {<<a>> : a \in 1..MaxExtent}
           \cup {<<a, b>> : a, b \in 1..MaxExtent}
ByteStrides == {-8, -4, 0, 4, 8, 12, 16}
RawBuf == [i \in 1..MaxBuf |-> 10 + i]

RECURSIVE byte_dot(_, _)
byte_dot(idx, st) ==
    IF Len(idx) = 0 THEN 0 ELSE Head(idx) * Head(st) + byte_dot(Tail(idx), Tail(st))

\* What the caller of the unsafe new_ owes: every element the foreign
\* runtime addresses with these strides lies inside the buffer.
ValidRaw(T, dims, st, p) ==
    \A idx \in Indices(dims) :
        LET b == p.off * size_of(T) + byte_dot(idx, st)
        IN  b >= 0 /\ b + size_of(T) <= Len(p.buf) * size_of(T)

\* new_ with a caller buffer, and strides left to the runtime or supplied.
NewRaw(StrideSet) ==
    /\ Idle
    /\ \E T \in Types : \E dims \in RawDims : \E off \in 0..(MaxBuf - 1) :
        \/ /\ ValidRaw(T, dims, element_strides(dims, size_of(T)), Ptr(RawBuf, off))
           /\ New_(T, dims, NullPtr, Ptr(RawBuf, off))
        \/ \E st \in [1..Len(dims) -> StrideSet] :
            /\ ValidRaw(T, dims, st, Ptr(RawBuf, off))
            /\ New_(T, dims, StridesArg(st), Ptr(RawBuf, off))

Accessors ==
    \E A \in Types : AsArray(A) \/ AsArrayMut(A) \/ AsSlice(A) \/ AsSliceMut(A)

\* The accessors asked for one element type.
AccessorsOf(A) == AsArray(A) \/ AsArrayMut(A) \/ AsSlice(A) \/ AsSliceMut(A)

(***************************************************************************)
(* Specifications.                                                         *)
(***************************************************************************)
\* Nested-sequence builders and the accessors, one view at a time.
Next ==
    \/ Idle /\ \E T \in Types : \E v \in Vec2In : FromVec2(T, v)
    \/ Idle /\ \E T \in Types : \E s \in Skel3 : FromVec3(T, Fill3(s))
    \/ Discard
    \/ views = <<>> /\ Accessors
    \/ \E i \in 1..Len(views) : Release(i)
    \/ Drop

Spec == Init /\ [][Next]_vars

\* new and introspection.
NextNew ==
    \/ Idle /\ \E T \in Types : \E dims \in NewShapes : New(T, dims)
    \/ Ndim
    \/ Shape
    \/ Strides
    \/ ArrLen
    \/ Drop

SpecNew == Init /\ [][NextNew]_vars

\* new_ with any byte strides, and the accessors, one view at a time.
NextGeom ==
    \/ NewRaw(ByteStrides)
    \/ views = <<>> /\ Accessors
    \/ \E i \in 1..Len(views) : Release(i)
    \/ Drop

SpecGeom == Init /\ [][NextGeom]_vars

\* Writing through mutable views and looking again, one view at a time,
\* over arrays no larger than the caller's buffer.
NextView ==
    \/ Idle /\ \E T \in Types : \E dims \in RawDims :
           Prod(dims) <= MaxBuf /\ New(T, dims)
    \/ NewRaw({-8, 0, 4, 8})
    \/ views = <<>> /\ AccessorsOf(built.T)
    \/ \E i \in 1..Len(views) : \E idx \in Indices(views[i].dim) :
           \E val \in Elem : ViewWrite(i, idx, val)
    \/ \E i \in 1..Len(views) : Release(i)
    \/ Drop

SpecView == Init /\ [][NextView]_vars

\* Several views of one handle at a time.
NextBorrow ==
    \/ Idle /\ \E T \in Types : \E dims \in RawDims :
           Prod(dims) <= MaxBuf /\ New(T, dims)
    \/ Accessors
    \/ \E i \in 1..Len(views) : Release(i)
    \/ Drop

SpecBorrow == Init /\ [][NextBorrow]_vars

(***************************************************************************)
(* Properties.                                                             *)
(***************************************************************************)
AccessorOps == {"as_array", "as_array_mut", "as_slice", "as_slice_mut"}

\* What reading a view at a multi-index can yield; nothing defined if the
\* element lies outside the buffer.
Get(vw, idx) ==
    IF InAlloc(mem, view_addr(vw, idx)) THEN Load(mem, view_addr(vw, idx)) ELSE {}

NoStep(s) == \A i \in 1..Len(trace) : trace[i] # s

\* C1: each of as_array, as_array_mut, as_slice and as_slice_mut returns Ok
\* exactly when the requested type's tag equals the array's tag; on a
\* mismatch it returns the type-mismatch error with expected = the requested
\* tag and found = the array's tag, returns no view, and has not read the
\* data pointer (nor shape or strides).
TypeMismatchRejected ==
    call.op \in AccessorOps =>
        LET want == TypeNum_typenum(call.A)
            have == obj.descr.type_num
        IN  /\ (ret.tag = "Ok") <=> (want = have)
            /\ want # have =>
                /\ ret = Err([err |-> "ToRust", expected |-> want, found |-> have])
                /\ NoStep("data") /\ NoStep("shape") /\ NoStep("strides")
            /\ want = have => ret.val.ptr = obj.data /\ ~NoStep("data")

\* C1 witness: an accessor was asked for a type of the array's element size
\* but another tag, and refused.
TypeMismatchSeen ==
    /\ call.op \in AccessorOps
    /\ ret.tag = "Err"
    /\ size_of(call.A) = elsize(obj.descr.type_num)

Rect2(v) == \A i, j \in 1..Len(v) : Len(v[i]) = Len(v[j])

\* C2: from_vec2(v) succeeds iff all inner vectors have one length; on
\* success the array has shape [v.len(), m], m the common inner length (0 for
\* empty v); on failure no foreign array exists and PyArray_New was not
\* called.
FromVec2Rectangular ==
    call.op = "from_vec2" =>
        /\ (ret.tag = "Ok") <=> Rect2(call.v)
        /\ ret.tag = "Ok" =>
            /\ obj.live
            /\ ret.val = obj
            /\ shape(obj) = <<Len(call.v), IF Len(call.v) = 0 THEN 0 ELSE Len(call.v[1])>>
        /\ ret.tag = "Err" => ~obj.live /\ NoStep("PyArray_New")

\* C2 witness: from_vec2 refused an input whose first rows agree in length
\* and whose last row differs.
FromVec2Refused ==
    /\ call.op = "from_vec2"
    /\ ret.tag = "Err"
    /\ Len(call.v) >= 2
    /\ Len(call.v[1]) # Len(call.v[Len(call.v)])

\* C3: from_vec3(v) returns an error whenever v is not rectangular at the
\* second or the third level, and on that path nothing was flattened, no
\* into_raw and no PyArray_New was performed, and no foreign object exists.
FromVec3RejectsRagged ==
    (call.op = "from_vec3" /\ (Ragged2(call.v) \/ Ragged3(call.v))) =>
        /\ ret.tag = "Err"
        /\ trace = <<>>
        /\ ~obj.live

\* C3 witness: an input that is rectangular at the second level and not at
\* the third (such as [[[1], []]]) was refused.
FromVec3ThirdLevelRefused ==
    /\ call.op = "from_vec3"
    /\ ~Ragged2(call.v)
    /\ Ragged3(call.v)
    /\ ret.tag = "Err"

RECURSIVE RowMajor(_, _)
RowMajor(s, k) ==
    IF Len(s) = 0
    THEN <<>>
    ELSE LET rest == RowMajor(Tail(s), k)
         IN  <<IF Len(rest) = 0 THEN k ELSE rest[1] * s[2]>> \o rest

\* C5: for an array built by new::<T>(shape) with element size k, ndim() is
\* the number of axes, shape() the requested shape, strides() the row-major
\* byte strides (k times the product of the later extents) and len() the
\* product of the extents; for [4,5,6]: strides [30k, 6k, k] and len 120.
NewGeometry ==
    (built.op = "new" /\ obj.live) =>
        LET s == built.dims
            k == size_of(built.T)
        IN  /\ call.op = "new" => ret.val = obj /\ written = NoWrites(mem)
            /\ call.op = "ndim" => ret.val = Len(s)
            /\ call.op = "shape" => ret.val = s
            /\ call.op = "strides" =>
                /\ ret.val = RowMajor(s, k)
                /\ s = <<4, 5, 6>> => ret.val = <<30 * k, 6 * k, k>>
            /\ call.op = "len" =>
                /\ ret.val = Prod(s)
                /\ s = <<4, 5, 6>> => ret.val = 120

\* C5 witness: strides() was called on new::<f64>([4,5,6]).
NewStridesSeen ==
    /\ built.op = "new"
    /\ built.dims = <<4, 5, 6>>
    /\ built.T = "f64"
    /\ call.op = "strides"
    /\ ret.val = <<240, 48, 8>>

\* C6: a read-only view or slice constructed after writes through mutable
\* views reads, at every in-bounds index, the value last written to the
\* element that index denotes (the element a mutable view of the same kind
\* addresses there): the view reads the buffer, not a copy.
MutationVisible ==
    (call.op \in {"as_array", "as_slice"} /\ ret.tag = "Ok") =>
        LET wv == IF call.op = "as_array"
                  THEN as_array_mut(call.A, obj).ret.val
                  ELSE as_slice_mut(call.A, obj).ret.val
        IN  \A idx \in Indices(ret.val.dim) :
                LET wa == view_addr(wv, idx)
                IN  (InAlloc(mem, wa) /\ written[wa + 1] # Uninit) =>
                        Get(ret.val, idx) = {written[wa + 1]}

\* C6 witness: a read-only view was constructed after a write through a
\* mutable view, over an index that write reached.
ReadAfterWriteSeen ==
    /\ call.op \in {"as_array", "as_slice"}
    /\ ret.tag = "Ok"
    /\ \E idx \in Indices(ret.val.dim) :
           /\ InAlloc(mem, view_addr(ret.val, idx))
           /\ written[view_addr(ret.val, idx) + 1] # Uninit

\* Row-major contiguity: every element lies at its row-major rank times the
\* element size from the data pointer.
Contiguous(o, k) ==
    \A r \in 0..(Prod(shape(o)) - 1) :
        byte_dot(unrank(r, shape(o)), strides(o)) = k * r

SliceOps == {"as_slice", "as_slice_mut"}

\* C7 as claimed: whenever as_slice or as_slice_mut returns a slice, the
\* array is row-major contiguous and the slice has len() elements, the i-th
\* being the i-th element of as_array in row-major order.
SliceOnlyIfContiguous ==
    (call.op \in SliceOps /\ ret.tag = "Ok") =>
        /\ Contiguous(obj, size_of(call.A))
        /\ ret.val.dim = <<Prod(shape(obj))>>
        /\ \A r \in 0..(Prod(shape(obj)) - 1) :
               Get(ret.val, <<r>>) =
                   Get(as_array(call.A, obj).ret.val, unrank(r, shape(obj)))

\* C7 as amended: as_slice and as_slice_mut check the type only; the slice
\* they return starts at the data pointer and has len() elements, and if the
\* array is row-major contiguous its i-th element is the i-th element of
\* as_array in row-major order.
SliceMatchesIfContiguous ==
    (call.op \in SliceOps /\ ret.tag = "Ok") =>
        /\ ret.val.ptr = obj.data
        /\ ret.val.dim = <<Prod(shape(obj))>>
        /\ Contiguous(obj, size_of(call.A)) =>
               \A r \in 0..(Prod(shape(obj)) - 1) :
                   /\ Get(ret.val, <<r>>) # {}
                   /\ Get(ret.val, <<r>>) =
                          Get(as_array(call.A, obj).ret.val, unrank(r, shape(obj)))

\* C7 witness: a slice over a contiguous two-axis array of several elements.
ContiguousSliceSeen ==
    /\ call.op \in SliceOps
    /\ ret.tag = "Ok"
    /\ Contiguous(obj, size_of(call.A))
    /\ ndim(obj) = 2
    /\ Prod(shape(obj)) >= 2

\* C8 as claimed: while a mutable view or slice of the handle is live, no
\* other view or slice of it is live.
MutableViewExclusive ==
    \A i \in 1..Len(views) : views[i].mut => Len(views) = 1

\* C9 as claimed: as_array / as_array_mut turn each byte stride into an
\* element stride by exact division; if some stride is negative or not a
\* multiple of the element size, they fail instead of returning a view with
\* a truncated or wrapped stride.
StrideExactOrError ==
    (call.op \in {"as_array", "as_array_mut"}
        /\ TypeNum_typenum(call.A) = obj.descr.type_num) =>
        LET k == size_of(call.A)
            s == strides(obj)
        IN  IF \A i \in 1..Len(s) : s[i] >= 0 /\ s[i] % k = 0
            THEN /\ ret.tag = "Ok"
                 /\ \A i \in 1..Len(s) :
                        ret.val.strides[i] = [wrap |-> FALSE, q |-> s[i] \div k]
            ELSE ret.tag = "Err"

====
